---------------------------- MODULE Spec2Model ----------------------------
(***************************************************************************)
(* Model of download_data.py: the stock dashboard's bulk downloader.       *)
(*                                                                         *)
(* A run of main() is a sequence of steps over two kinds of state: the     *)
(* files of SCRIPT_DIR/data (ledger cache_meta.json, info_cache.json, one  *)
(* artifact per ticker and interval, manifests, grids.json), which outlive *)
(* the run, and the locals of main(), which die with the process.  The     *)
(* environment starts runs, kills them at any step, deletes artifact files *)
(* between runs and moves the calendar forward between runs.               *)
(*                                                                         *)
(* open(path, "w") followed by json.dump is two steps: the open truncates  *)
(* the file, the dump completes it.  A process killed in between leaves a  *)
(* truncated file, which exists but is not a JSON document.                *)
(***************************************************************************)
EXTENDS Integers, Sequences, FiniteSets, TLC

(***************************************************************************)
(* Bounds of the model.                                                    *)
(***************************************************************************)
MaxRuns   == 2    \* runs of main() started in one behaviour
MaxEvents == 2    \* events, in one behaviour, that disturb a run of main(): the
                  \* process is killed, an artifact file is deleted from
                  \* outside, the day changes, or the data source gives an
                  \* answer that is not complete and well formed (a call that
                  \* raises, a ticker without data, a frame with an unparsable
                  \* bar)
MaxBars   == 2    \* bars in the frame the data source returns for a ticker
MaxLen    == 4    \* closes in the series of a call of sma on its own
MaxWindow == 3    \* the window of a call of sma on its own

(***************************************************************************)
(* CHUNK_SIZE is 100 in the source (line 39).  It is scaled to 2 here so   *)
(* that a pool of three tickers is split into a batch of two and a batch   *)
(* of one; nothing else about it is changed.                               *)
(***************************************************************************)
CHUNK_SIZE == 2

INTERVALS ==
    << [label |-> "daily",  period |-> "2y", interval |-> "1d",  suffix |-> "daily"],
       [label |-> "weekly", period |-> "5y", interval |-> "1wk", suffix |-> "weekly"] >>

CACHE_FILE == "cache_meta.json"
INFO_FILE  == "info_cache.json"
GRIDS_FILE == "grids.json"

(***************************************************************************)
(* Strings.  TLC gives strings no order and no characters, so the string   *)
(* functions the program uses are tables over the strings of the model:    *)
(* the lines of the ticker files, the tickers and the grid names.          *)
(***************************************************************************)
Lines == {"A", "a", " b ", "B", "C", "# x", ""}

\* str.strip()
Strip(line) == CASE line = " b " -> "b"
                 [] OTHER        -> line

\* str.startswith("#")
StartsWithHash(line) == line = "# x"

\* str.upper()
Upper(s) == CASE s = "a" -> "A"
              [] s = "b" -> "B"
              [] OTHER   -> s

\* the order sorted() gives strings
Rank(s) == CASE s = "A"  -> 1
             [] s = "B"  -> 2
             [] s = "C"  -> 3
             [] s = "g1" -> 4
             [] s = "g2" -> 5
             [] OTHER    -> 9

RECURSIVE Sorted(_)
Sorted(S) == IF S = {} THEN <<>>
             ELSE LET m == CHOOSE x \in S : \A y \in S : Rank(x) <= Rank(y)
                  IN  <<m>> \o Sorted(S \ {m})

Range(s) == {s[i] : i \in 1..Len(s)}

Min(a, b) == IF a <= b THEN a ELSE b

\* dict.get(key) and dict.get(key, default)
Get(d, key, default) == IF key \in DOMAIN d THEN d[key] ELSE default

\* dict with d[key] = value
Put(d, key, value) == [k \in DOMAIN d \cup {key} |-> IF k = key THEN value ELSE d[k]]

\* dict.update(other)
Update(d, other) ==
    [k \in DOMAIN d \cup DOMAIN other |-> IF k \in DOMAIN other THEN other[k] ELSE d[k]]

Remove(d, key) == [k \in DOMAIN d \ {key} |-> d[k]]

EmptyDict == <<>>

(***************************************************************************)
(* The ticker-list sources of SCRIPT_DIR: tickers_<name>.txt for each grid *)
(* name, as the lines of the file.  A behaviour keeps one of them.         *)
(***************************************************************************)
Repos ==
    { [g1 |-> <<" b ", "# x", "A">>, g2 |-> <<"a", "", "C">>],
      EmptyDict }


(***************************************************************************)
(* State.                                                                  *)
(***************************************************************************)
VARIABLES
    \* the environment: what outlives a run
    repo,          \* SCRIPT_DIR: grid name -> lines of tickers_<name>.txt
    day,           \* datetime.date.today()
    dataDir,       \* DATA_DIR exists
    fs,            \* DATA_DIR: file name -> content
    \* the run: main()'s position and locals
    pc,
    grid_tickers, all_tickers, date_cache, info_cache, today,
    ii,            \* position of the for loop of line 217 in INTERVALS
    to_update,
    i,             \* the loop variable of line 232
    all_ohlcv,
    ti,            \* position of the for loop of line 238 in to_update
    updated, failed,
    gi,            \* position of the for loop of line 265 in grid_tickers
    available,
    \* history: what the properties speak of and the program does not keep
    runs,          \* runs started
    events,        \* disturbing events so far
    fsAtStart,     \* DATA_DIR as the current run found it
    fetched,       \* <<ticker, label>> passed to bulk_download by the current run
    batches,       \* the calls of bulk_download by the current run, in order:
                   \* the label of the interval and the batch
    gotRows,       \* <<ticker, label>> -> the rows bulk_download returned for it
                   \* to the current run
    malformed,     \* <<ticker, label>> whose frame held an unparsable bar, current run
    written,       \* artifact files completely written by the current run
    failedLog,     \* <<ticker, label>> reported failed by the current run
    allOk,         \* no fetch of the current run has failed so far
    abortCause,    \* why the current run ended in an uncaught exception
    refreshes,     \* artifact file -> complete writes of it today
    disturbed,     \* artifact files deleted from outside, or written and then
                   \* lost to a crash before the ledger was saved, today
    infoFetches,   \* ticker -> calls of yf.Ticker(ticker).info so far
    infoLost,      \* tickers whose fetched info a crash lost before it was saved
    prevOk,        \* the previous run completed today with every fetch
                   \* succeeding, and nothing has touched DATA_DIR since
    prevSaved,     \* <<ticker, label>> the previous run wrote in an interval it
                   \* had completed when it was killed in a later one, today,
                   \* nothing having touched DATA_DIR since
    \* a call of sma on its own
    sma_values, sma_n, sma_result, sma_called

envVars  == <<repo, day, dataDir, fs>>
runVars  == <<pc, grid_tickers, all_tickers, date_cache, info_cache, today, ii,
              to_update, i, all_ohlcv, ti, updated, failed, gi, available>>
histVars == <<runs, events, fsAtStart, fetched, batches, gotRows, malformed, written,
              failedLog, allOk, abortCause, refreshes, disturbed, infoFetches,
              infoLost, prevOk, prevSaved>>
smaVars  == <<sma_values, sma_n, sma_result, sma_called>>
vars     == <<envVars, runVars, histVars, smaVars>>

(***************************************************************************)
(* Files of DATA_DIR.  A file opened for writing and not yet dumped is     *)
(* truncated; json.load raises on it.                                      *)
(***************************************************************************)
Trunc      == [kind |-> "trunc"]
Json(data) == [kind |-> "json", data |-> data]

Exists(fname) == fname \in DOMAIN fs

\* f"{ticker}_{suffix}.json" in DATA_DIR
ArtifactName(ticker, suffix) == ticker \o "_" \o suffix \o ".json"

ManifestName(name) == "manifest_" \o name \o ".json"

cache_key(ticker, interval_label) == ticker \o "_" \o interval_label

Tickers == {"A", "B", "C"}
Labels  == {INTERVALS[n].label : n \in 1..Len(INTERVALS)}
Keys    == Tickers \X Labels
ArtifactFiles == {ArtifactName(k[1], k[2]) : k \in Keys}

(***************************************************************************)
(* Ticker file helpers.                                                    *)
(***************************************************************************)
\* the grid names in the order of sorted(glob.glob(pattern))
find_ticker_files == Sorted(DOMAIN repo)

RECURSIVE load_tickers_from_file(_)
load_tickers_from_file(lines) ==
    IF lines = <<>> THEN <<>>
    ELSE LET line == Strip(Head(lines))
             rest == load_tickers_from_file(Tail(lines))
         IN  IF line # "" /\ ~StartsWithHash(line)
             THEN <<Upper(line)>> \o rest
             ELSE rest

(***************************************************************************)
(* Cache helpers.                                                          *)
(***************************************************************************)
\* load_json raises json.JSONDecodeError on a truncated file
LoadRaises(path) == Exists(path) /\ fs[path].kind # "json"

load_json(path, default) == IF Exists(path) THEN fs[path].data ELSE default

\* needs_update without the test of the artifact file
needs_update_ledger_only(ticker, interval_label, dc) ==
    LET key == cache_key(ticker, interval_label)
    IN  key \notin DOMAIN dc \/ dc[key] # day

\* needs_update without the test of the ledger
needs_update_always(ticker, interval_label, dc) == TRUE

needs_update(ticker, interval_label, dc) ==
    LET key   == cache_key(ticker, interval_label)
        fname == ArtifactName(ticker, interval_label)
    IN  \/ key \notin DOMAIN dc        \* date_cache.get(key) is None
        \/ dc[key] # day
        \/ ~Exists(fname)

(***************************************************************************)
(* SMA.  Prices are integers, in units of 0.0001, so that round(x, 4) is   *)
(* rounding to an integer; Python rounds halves to even.                   *)
(***************************************************************************)
Null     == [null |-> TRUE]
Value(v) == [null |-> FALSE, v |-> v]

RECURSIVE Sum(_)
Sum(values) == IF values = <<>> THEN 0 ELSE Head(values) + Sum(Tail(values))

\* round(total / n, 4) for total >= 0, n > 0
RoundDiv(total, n) ==
    LET q == total \div n
        r == total % n
    IN  IF 2 * r < n THEN q
        ELSE IF 2 * r > n THEN q + 1
        ELSE IF q % 2 = 0 THEN q ELSE q + 1

\* the loop of line 98 starts one index late
sma_late(values, n) ==
    [j \in 1..Len(values) |->
        IF j > n THEN Value(RoundDiv(Sum(SubSeq(values, j - n + 1, j)), n))
        ELSE Null]

sma(values, n) ==
    [j \in 1..Len(values) |->
        IF j >= n THEN Value(RoundDiv(Sum(SubSeq(values, j - n + 1, j)), n))
        ELSE Null]

enrich_with_sma(rows) ==
    LET closes == [j \in 1..Len(rows) |-> rows[j].c]
    IN  [j \in 1..Len(rows) |->
            [t      |-> rows[j].t,
             c      |-> rows[j].c,
             sma10  |-> sma(closes, 10)[j],
             sma50  |-> sma(closes, 50)[j],
             sma250 |-> sma(closes, 250)[j]]]

(***************************************************************************)
(* Bulk download.  The data source answers a batch with a frame per        *)
(* ticker: a sequence of bars, each parsable or not.  A bar is its date    *)
(* (its position in the frame) and its close; open, high, low and volume   *)
(* are parsed with it and carry nothing more.  df is the answer of         *)
(* yf.download: ticker -> frame; a ticker the answer lacks has no column   *)
(* (a batch of several) or an empty frame (a batch of one).                *)
(***************************************************************************)
Closes == {100000}
Bars   == [ok : BOOLEAN, c : Closes]
Frames == {<<>>} \cup [1..MaxBars -> Bars]

Answers(chunk) == UNION {[S -> Frames] : S \in SUBSET Range(chunk)}

HasBadBar(frame) == \E j \in 1..Len(frame) : ~frame[j].ok

\* the tickers of the batch the answer is faulty for
FaultyIn(chunk, df) ==
    {t \in Range(chunk) : t \notin DOMAIN df \/ df[t] = <<>> \/ HasBadBar(df[t])}

\* lines 135-142 and 153-160: one row of the result
ParseRow(dt, bar) == [t |-> dt, c |-> bar.c]

\* lines 133-144: a row that does not parse is skipped
RowsOfSingle(frame) ==
    LET good == SelectSeq([j \in 1..Len(frame) |-> j], LAMBDA j : frame[j].ok)
    IN  [k \in 1..Len(good) |-> ParseRow(good[k], frame[good[k]])]

\* lines 152-160: every row, or an exception
RowsOfMulti(frame) == [j \in 1..Len(frame) |-> ParseRow(j, frame[j])]

\* lines 149-164: the ticker's parse raises (KeyError on df[t], or a bad bar)
MultiRaises(t, df) == t \notin DOMAIN df \/ HasBadBar(df[t])

\* bulk_download without the tests of lines 145 and 161: a ticker without rows
\* is in the result
bulk_download_keeps_empty(tickers, df) ==
    IF Len(tickers) = 1
    THEN [x \in {tickers[1]} |-> RowsOfSingle(Get(df, tickers[1], <<>>))]
    ELSE [t \in {t \in Range(tickers) : ~MultiRaises(t, df)} |-> RowsOfMulti(df[t])]

bulk_download(tickers, df) ==
    IF Len(tickers) = 1
    THEN LET t    == tickers[1]
             rows == RowsOfSingle(Get(df, t, <<>>))
         IN  IF rows # <<>> THEN [x \in {t} |-> rows] ELSE EmptyDict
    ELSE LET ok == {t \in Range(tickers) :
                        ~MultiRaises(t, df) /\ RowsOfMulti(df[t]) # <<>>}
         IN  [t \in ok |-> RowsOfMulti(df[t])]

(***************************************************************************)
(* Company info.  raw is the answer of yf.Ticker(ticker).info, a dict, or  *)
(* the call raises.                                                        *)
(***************************************************************************)
RawInfos == {[shortName |-> "Name", sector |-> "Sector", industry |-> "Industry"]}

InfoOf(ticker, raw) ==
    [shortName |-> Get(raw, "shortName", ticker),
     sector    |-> Get(raw, "sector", "-"),
     industry  |-> Get(raw, "industry", "-")]

\* the cache is not consulted
InfoCached_never(ticker, cache) == FALSE

\* line 172
InfoCached(ticker, cache) == ticker \in DOMAIN cache

\* info_cache after fetch_info(ticker, info_cache); raised: the call raised
fetch_info(ticker, cache, raised, raw) ==
    IF InfoCached(ticker, cache) THEN cache
    ELSE IF raised
         THEN Put(cache, ticker, [shortName |-> ticker, sector |-> "-", industry |-> "-"])
         ELSE Put(cache, ticker, InfoOf(ticker, raw))

(***************************************************************************)
(* Initial state: a checkout with its ticker files and no data directory.  *)
(***************************************************************************)
NoRun ==
    /\ pc = "idle"
    /\ grid_tickers = EmptyDict /\ all_tickers = {}
    /\ date_cache = EmptyDict /\ info_cache = EmptyDict /\ today = 0
    /\ ii = 0 /\ to_update = <<>> /\ i = 0 /\ all_ohlcv = EmptyDict
    /\ ti = 0 /\ updated = <<>> /\ failed = <<>> /\ gi = 0 /\ available = <<>>

NoRunHistory ==
    /\ fsAtStart = EmptyDict /\ fetched = {} /\ gotRows = EmptyDict /\ malformed = {}
    /\ batches = <<>>
    /\ written = {} /\ failedLog = {} /\ allOk = TRUE /\ abortCause = "none"

Init ==
    /\ repo \in Repos
    /\ day = 1
    /\ dataDir = FALSE
    /\ fs = EmptyDict
    /\ NoRun
    /\ NoRunHistory
    /\ runs = 0 /\ events = 0
    /\ refreshes = [f \in ArtifactFiles |-> 0]
    /\ disturbed = {}
    /\ infoFetches = [t \in Tickers |-> 0]
    /\ infoLost = {}
    /\ prevOk = FALSE
    /\ prevSaved = {}
    /\ sma_values = <<>> /\ sma_n = 1 /\ sma_result = <<>> /\ sma_called = FALSE

(***************************************************************************)
(* main(), lines 191-214: up to the first interval.                        *)
(***************************************************************************)
Label == INTERVALS[ii].label

StartRun ==
    /\ UNCHANGED smaVars
    /\ pc = "idle"
    /\ runs < MaxRuns
    /\ runs' = runs + 1
    /\ dataDir' = TRUE                                   \* os.makedirs
    /\ fsAtStart' = fs
    /\ LET grids == find_ticker_files
       IN  IF grids = <<>>
           THEN /\ pc' = "exit1"                         \* sys.exit(1)
                /\ UNCHANGED <<grid_tickers, all_tickers, date_cache,
                               info_cache, today, ii, abortCause>>
           ELSE /\ grid_tickers' =
                     [name \in Range(grids) |-> load_tickers_from_file(repo[name])]
                /\ all_tickers' =
                     UNION {Range(load_tickers_from_file(repo[name])) : name \in Range(grids)}
                /\ IF LoadRaises(CACHE_FILE) \/ LoadRaises(INFO_FILE)
                   THEN /\ pc' = "aborted"               \* json.JSONDecodeError
                        /\ abortCause' = "JSONDecodeError"
                        /\ UNCHANGED <<date_cache, info_cache, today, ii>>
                   ELSE /\ date_cache' = load_json(CACHE_FILE, EmptyDict)
                        /\ info_cache' = load_json(INFO_FILE, EmptyDict)
                        /\ today' = day
                        /\ ii' = 1
                        /\ pc' = "interval"
                        /\ UNCHANGED abortCause
    /\ UNCHANGED <<repo, day, fs>>
    /\ UNCHANGED <<to_update, i, all_ohlcv, ti, updated, failed, gi, available>>
    /\ UNCHANGED <<events, fetched, batches, gotRows, malformed, written, failedLog, allOk,
                   refreshes, disturbed, infoFetches, infoLost, prevOk, prevSaved>>

(***************************************************************************)
(* Lines 217-228: the head of the interval loop and the staleness filter.  *)
(* After the last interval the run goes on to the manifests (line 265).    *)
(***************************************************************************)
\* where the loop of line 217 goes after the interval at position ii
AfterInterval == IF ii + 1 > Len(INTERVALS) THEN "manifest" ELSE "interval"

RECURSIVE Concatenated(_)
Concatenated(names) ==
    IF names = <<>> THEN <<>>
    ELSE grid_tickers[Head(names)] \o Concatenated(Tail(names))

\* the tickers of the grids one after the other, not the set of them
ToUpdate_no_dedup(label, dc) ==
    SelectSeq(Concatenated(Sorted(DOMAIN grid_tickers)),
              LAMBDA t : needs_update(t, label, dc))

ToUpdate(label, dc) ==
    SelectSeq(Sorted(all_tickers), LAMBDA t : needs_update(t, label, dc))

Interval ==
    /\ UNCHANGED smaVars
    /\ pc = "interval"
    /\ LET tu == ToUpdate(Label, date_cache)
       IN  /\ to_update' = tu
           /\ IF tu = <<>>
              THEN /\ ii' = ii + 1                       \* continue
                   /\ pc' = AfterInterval
                   /\ gi' = IF AfterInterval = "manifest" THEN 1 ELSE gi
                   /\ UNCHANGED <<i, all_ohlcv>>
              ELSE /\ all_ohlcv' = EmptyDict
                   /\ i' = 0
                   /\ pc' = "download"
                   /\ UNCHANGED <<ii, gi>>
    /\ UNCHANGED envVars
    /\ UNCHANGED <<grid_tickers, all_tickers, date_cache, info_cache, today,
                   ti, updated, failed, available>>
    /\ UNCHANGED histVars

(***************************************************************************)
(* Lines 232-237: one batch.  yf.download raises, and nothing catches it,  *)
(* or it answers and the batch's result is merged into all_ohlcv.          *)
(***************************************************************************)
\* the slice of line 233 ends one place late
Chunk_overlapping == SubSeq(to_update, i + 1, Min(i + CHUNK_SIZE + 1, Len(to_update)))

Chunk == SubSeq(to_update, i + 1, Min(i + CHUNK_SIZE, Len(to_update)))

KeysOf(tickers, label) == {<<t, label>> : t \in tickers}

Download ==
    /\ UNCHANGED smaVars
    /\ pc = "download"
    /\ fetched' = fetched \cup KeysOf(Range(Chunk), Label)
    /\ batches' = Append(batches, [label |-> Label, chunk |-> Chunk])
    /\ \/ /\ events < MaxEvents
          /\ events' = events + 1
          /\ pc' = "aborted"
          /\ abortCause' = "DataSource"
          /\ allOk' = FALSE
          /\ UNCHANGED <<all_ohlcv, i, ti, updated, failed, gotRows, malformed>>
       \/ \E df \in Answers(Chunk) :
            LET result == bulk_download(Chunk, df)
            IN  /\ events + Cardinality(FaultyIn(Chunk, df)) <= MaxEvents
                /\ events' = events + Cardinality(FaultyIn(Chunk, df))
                /\ all_ohlcv' = Update(all_ohlcv, result)
                /\ gotRows' = [k \in DOMAIN gotRows \cup KeysOf(DOMAIN result, Label) |->
                                  IF k \in DOMAIN gotRows THEN gotRows[k]
                                  ELSE result[k[1]]]
                /\ malformed' = malformed \cup
                      KeysOf({t \in DOMAIN df : HasBadBar(df[t])}, Label)
                /\ IF i + CHUNK_SIZE < Len(to_update)
                   THEN /\ i' = i + CHUNK_SIZE
                        /\ pc' = "download"
                        /\ UNCHANGED <<ti, updated, failed>>
                   ELSE /\ i' = i
                        /\ pc' = "ticker"
                        /\ ti' = 1
                        /\ updated' = <<>>
                        /\ failed' = <<>>
                /\ UNCHANGED <<abortCause, allOk>>
    /\ UNCHANGED envVars
    /\ UNCHANGED <<grid_tickers, all_tickers, date_cache, info_cache, today, ii,
                   to_update, gi, available>>
    /\ UNCHANGED <<runs, fsAtStart, written, failedLog, refreshes, disturbed,
                   infoFetches, infoLost, prevOk, prevSaved>>

(***************************************************************************)
(* Lines 238-249: one ticker of to_update, up to the open of its artifact. *)
(* A ticker without rows is reported failed.  Otherwise its rows are       *)
(* enriched in place, its info is looked up or fetched, and the artifact   *)
(* file is opened for writing, which truncates it.                         *)
(***************************************************************************)
Ticker == to_update[ti]

\* where the loop of line 238 goes after the ticker at position ti
AfterTicker == IF ti + 1 > Len(to_update) THEN "save_cache" ELSE "ticker"

\* the ledger entry is set when the artifact is opened, before it is written
TickerStep_record_first ==
    /\ UNCHANGED smaVars
    /\ pc = "ticker"
    /\ IF Ticker \notin DOMAIN all_ohlcv
       THEN /\ failed' = Append(failed, Ticker)
            /\ failedLog' = failedLog \cup {<<Ticker, Label>>}
            /\ allOk' = FALSE
            /\ ti' = ti + 1
            /\ pc' = AfterTicker
            /\ UNCHANGED <<fs, all_ohlcv, info_cache, infoFetches, events, date_cache>>
       ELSE /\ all_ohlcv' = Put(all_ohlcv, Ticker, enrich_with_sma(all_ohlcv[Ticker]))
            /\ \E raised \in BOOLEAN, raw \in RawInfos :
                  /\ raised => ~InfoCached(Ticker, info_cache) /\ events < MaxEvents
                  /\ events' = IF raised THEN events + 1 ELSE events
                  /\ info_cache' = fetch_info(Ticker, info_cache, raised, raw)
            /\ infoFetches' =
                  IF InfoCached(Ticker, info_cache) THEN infoFetches
                  ELSE [infoFetches EXCEPT ![Ticker] = @ + 1]
            /\ fs' = Put(fs, ArtifactName(Ticker, INTERVALS[ii].suffix), Trunc)
            /\ date_cache' = Put(date_cache, cache_key(Ticker, Label), today)
            /\ pc' = "dump"
            /\ UNCHANGED <<failed, failedLog, allOk, ti>>
    /\ UNCHANGED <<repo, day, dataDir>>
    /\ UNCHANGED <<grid_tickers, all_tickers, today, ii, to_update, i,
                   updated, gi, available>>
    /\ UNCHANGED <<runs, fsAtStart, fetched, batches, gotRows, malformed, written,
                   abortCause, refreshes, disturbed, infoLost, prevOk, prevSaved>>

TickerStep ==
    /\ UNCHANGED smaVars
    /\ pc = "ticker"
    /\ IF Ticker \notin DOMAIN all_ohlcv
       THEN /\ failed' = Append(failed, Ticker)
            /\ failedLog' = failedLog \cup {<<Ticker, Label>>}
            /\ allOk' = FALSE
            /\ ti' = ti + 1
            /\ pc' = AfterTicker
            /\ UNCHANGED <<fs, all_ohlcv, info_cache, infoFetches, events>>
       ELSE /\ all_ohlcv' = Put(all_ohlcv, Ticker, enrich_with_sma(all_ohlcv[Ticker]))
            /\ \E raised \in BOOLEAN, raw \in RawInfos :
                  /\ raised => ~InfoCached(Ticker, info_cache) /\ events < MaxEvents
                  /\ events' = IF raised THEN events + 1 ELSE events
                  /\ info_cache' = fetch_info(Ticker, info_cache, raised, raw)
            /\ infoFetches' =
                  IF InfoCached(Ticker, info_cache) THEN infoFetches
                  ELSE [infoFetches EXCEPT ![Ticker] = @ + 1]
            /\ fs' = Put(fs, ArtifactName(Ticker, INTERVALS[ii].suffix), Trunc)
            /\ pc' = "dump"
            /\ UNCHANGED <<failed, failedLog, allOk, ti>>
    /\ UNCHANGED <<repo, day, dataDir>>
    /\ UNCHANGED <<grid_tickers, all_tickers, date_cache, today, ii, to_update, i,
                   updated, gi, available>>
    /\ UNCHANGED <<runs, fsAtStart, fetched, batches, gotRows, malformed, written,
                   abortCause, refreshes, disturbed, infoLost, prevOk, prevSaved>>

(***************************************************************************)
(* Lines 250-253: the dump completes the artifact, and only then is the    *)
(* ledger entry set, in memory.                                            *)
(***************************************************************************)
Artifact(ticker) ==
    [ticker |-> ticker, info |-> info_cache[ticker], ohlcv |-> all_ohlcv[ticker]]

\* the ledger entry is not set
RecordSuccess_forgotten(dc, ticker, label) == dc

RecordSuccess(dc, ticker, label) == Put(dc, cache_key(ticker, label), today)

\* the ledger is saved with every artifact, not once per interval
TickerDump_flushing ==
    /\ UNCHANGED smaVars
    /\ pc = "dump"
    /\ fs' = Put(Put(fs, ArtifactName(Ticker, INTERVALS[ii].suffix), Json(Artifact(Ticker))),
                 CACHE_FILE, Json(RecordSuccess(date_cache, Ticker, Label)))
    /\ date_cache' = RecordSuccess(date_cache, Ticker, Label)
    /\ updated' = Append(updated, Ticker)
    /\ written' = written \cup {<<Ticker, INTERVALS[ii].suffix>>}
    /\ refreshes' = [refreshes EXCEPT ![ArtifactName(Ticker, INTERVALS[ii].suffix)] = @ + 1]
    /\ ti' = ti + 1
    /\ pc' = AfterTicker
    /\ UNCHANGED <<repo, day, dataDir>>
    /\ UNCHANGED <<grid_tickers, all_tickers, info_cache, today, ii, to_update, i,
                   all_ohlcv, failed, gi, available>>
    /\ UNCHANGED <<runs, events, fsAtStart, fetched, batches, gotRows, malformed,
                   failedLog, allOk, abortCause, disturbed, infoFetches,
                   infoLost, prevOk, prevSaved>>

TickerDump ==
    /\ UNCHANGED smaVars
    /\ pc = "dump"
    /\ fs' = Put(fs, ArtifactName(Ticker, INTERVALS[ii].suffix), Json(Artifact(Ticker)))
    /\ date_cache' = RecordSuccess(date_cache, Ticker, Label)
    /\ updated' = Append(updated, Ticker)
    /\ written' = written \cup {<<Ticker, INTERVALS[ii].suffix>>}
    /\ refreshes' = [refreshes EXCEPT ![ArtifactName(Ticker, INTERVALS[ii].suffix)] = @ + 1]
    /\ ti' = ti + 1
    /\ pc' = AfterTicker
    /\ UNCHANGED <<repo, day, dataDir>>
    /\ UNCHANGED <<grid_tickers, all_tickers, info_cache, today, ii, to_update, i,
                   all_ohlcv, failed, gi, available>>
    /\ UNCHANGED <<runs, events, fsAtStart, fetched, batches, gotRows, malformed,
                   failedLog, allOk, abortCause, disturbed, infoFetches,
                   infoLost, prevOk, prevSaved>>

(***************************************************************************)
(* Lines 255-256: save_json of the ledger, then of the info cache, each an *)
(* open and a dump.  They run once per interval, after its last ticker.    *)
(***************************************************************************)
Step(from, to, file, content) ==
    /\ pc = from
    /\ pc' = to
    /\ fs' = Put(fs, file, content)

SaveCacheOpen ==
    /\ UNCHANGED smaVars
    /\ Step("save_cache", "dump_cache", CACHE_FILE, Trunc)
    /\ UNCHANGED <<repo, day, dataDir>>
    /\ UNCHANGED <<grid_tickers, all_tickers, date_cache, info_cache, today, ii,
                   to_update, i, all_ohlcv, ti, updated, failed, gi, available>>
    /\ UNCHANGED histVars

SaveCacheDump ==
    /\ UNCHANGED smaVars
    /\ Step("dump_cache", "save_info", CACHE_FILE, Json(date_cache))
    /\ UNCHANGED <<repo, day, dataDir>>
    /\ UNCHANGED <<grid_tickers, all_tickers, date_cache, info_cache, today, ii,
                   to_update, i, all_ohlcv, ti, updated, failed, gi, available>>
    /\ UNCHANGED histVars

SaveInfoOpen ==
    /\ UNCHANGED smaVars
    /\ Step("save_info", "dump_info", INFO_FILE, Trunc)
    /\ UNCHANGED <<repo, day, dataDir>>
    /\ UNCHANGED <<grid_tickers, all_tickers, date_cache, info_cache, today, ii,
                   to_update, i, all_ohlcv, ti, updated, failed, gi, available>>
    /\ UNCHANGED histVars

SaveInfoDump ==
    /\ UNCHANGED smaVars
    /\ Step("dump_info", AfterInterval, INFO_FILE, Json(info_cache))
    /\ ii' = ii + 1
    /\ gi' = IF AfterInterval = "manifest" THEN 1 ELSE gi
    /\ UNCHANGED <<repo, day, dataDir>>
    /\ UNCHANGED <<grid_tickers, all_tickers, date_cache, info_cache, today,
                   to_update, i, all_ohlcv, ti, updated, failed, available>>
    /\ UNCHANGED histVars

(***************************************************************************)
(* Lines 264-279: a manifest per grid, in the order of grid_tickers, then  *)
(* the index.  now, the timestamp they share, is the number of the run.    *)
(***************************************************************************)
GridNames == Sorted(DOMAIN grid_tickers)

\* the test of the daily artifact file is left out
Available_all(tickers) == tickers

\* the pool's order instead of the grid's
Available_sorted(tickers) ==
    Sorted({t \in Range(tickers) : Exists(ArtifactName(t, "daily"))})

Available(tickers) == SelectSeq(tickers, LAMBDA t : Exists(ArtifactName(t, "daily")))

ManifestOpen ==
    /\ UNCHANGED smaVars
    /\ pc = "manifest"
    /\ available' = Available(grid_tickers[GridNames[gi]])
    /\ Step("manifest", "dump_manifest", ManifestName(GridNames[gi]), Trunc)
    /\ UNCHANGED <<repo, day, dataDir>>
    /\ UNCHANGED <<grid_tickers, all_tickers, date_cache, info_cache, today, ii,
                   to_update, i, all_ohlcv, ti, updated, failed, gi>>
    /\ UNCHANGED histVars

ManifestDump ==
    /\ UNCHANGED smaVars
    /\ Step("dump_manifest", IF gi + 1 > Len(GridNames) THEN "index" ELSE "manifest",
            ManifestName(GridNames[gi]),
            Json([grid |-> GridNames[gi], tickers |-> available, generated |-> runs]))
    /\ gi' = gi + 1
    /\ UNCHANGED <<repo, day, dataDir>>
    /\ UNCHANGED <<grid_tickers, all_tickers, date_cache, info_cache, today, ii,
                   to_update, i, all_ohlcv, ti, updated, failed, available>>
    /\ UNCHANGED histVars

IndexOpen ==
    /\ UNCHANGED smaVars
    /\ Step("index", "dump_index", GRIDS_FILE, Trunc)
    /\ UNCHANGED <<repo, day, dataDir>>
    /\ UNCHANGED <<grid_tickers, all_tickers, date_cache, info_cache, today, ii,
                   to_update, i, all_ohlcv, ti, updated, failed, gi, available>>
    /\ UNCHANGED histVars

IndexDump ==
    /\ UNCHANGED smaVars
    /\ Step("dump_index", "done", GRIDS_FILE,
            Json([grids |-> GridNames, generated |-> runs]))
    /\ UNCHANGED <<repo, day, dataDir>>
    /\ UNCHANGED <<grid_tickers, all_tickers, date_cache, info_cache, today, ii,
                   to_update, i, all_ohlcv, ti, updated, failed, gi, available>>
    /\ UNCHANGED histVars

(***************************************************************************)
(* The end of a run: the process returns from main() (line 280), exits     *)
(* with status 1 (line 196) or dies of an uncaught exception.  Its locals  *)
(* are gone.                                                               *)
(***************************************************************************)
Ended == pc \in {"done", "exit1", "aborted"}

Forget ==
    /\ pc' = "idle"
    /\ grid_tickers' = EmptyDict /\ all_tickers' = {}
    /\ date_cache' = EmptyDict /\ info_cache' = EmptyDict /\ today' = 0
    /\ ii' = 0 /\ to_update' = <<>> /\ i' = 0 /\ all_ohlcv' = EmptyDict
    /\ ti' = 0 /\ updated' = <<>> /\ failed' = <<>> /\ gi' = 0 /\ available' = <<>>
    /\ fsAtStart' = EmptyDict /\ fetched' = {} /\ gotRows' = EmptyDict /\ malformed' = {}
    /\ batches' = <<>>
    /\ written' = {} /\ failedLog' = {} /\ allOk' = TRUE /\ abortCause' = "none"

\* the ledger on disk records key as refreshed today
Persisted(key) ==
    /\ Exists(CACHE_FILE)
    /\ fs[CACHE_FILE].kind = "json"
    /\ key \in DOMAIN fs[CACHE_FILE].data
    /\ fs[CACHE_FILE].data[key] = day

InfoSaved(ticker) ==
    /\ Exists(INFO_FILE)
    /\ fs[INFO_FILE].kind = "json"
    /\ ticker \in DOMAIN fs[INFO_FILE].data

\* what the end of the process loses: artifacts written and not in the saved
\* ledger, info fetched and not in the saved info cache
Lose ==
    /\ disturbed' = disturbed \cup
          {ArtifactName(k[1], k[2]) : k \in {w \in written : ~Persisted(cache_key(w[1], w[2]))}}
    /\ infoLost' = infoLost \cup {t \in DOMAIN info_cache : ~InfoSaved(t)}

Exit ==
    /\ UNCHANGED smaVars
    /\ Ended
    /\ Forget
    /\ Lose
    /\ prevOk' = (pc = "done" /\ allOk)
    /\ prevSaved' = {}
    /\ UNCHANGED envVars
    /\ UNCHANGED <<runs, events, refreshes, infoFetches>>

(***************************************************************************)
(* The environment.  The process can be killed at any step of a run;       *)
(* between runs an artifact file can be deleted and the day can change.    *)
(***************************************************************************)
Crash ==
    /\ UNCHANGED smaVars
    /\ pc # "idle"
    /\ ~Ended
    /\ events < MaxEvents
    /\ events' = events + 1
    /\ Forget
    /\ Lose
    /\ prevOk' = FALSE
    /\ prevSaved' = IF ii \in 1..Len(INTERVALS)
                    THEN {k \in written : INTERVALS[ii].label # k[2]}
                    ELSE {}
    /\ UNCHANGED envVars
    /\ UNCHANGED <<runs, refreshes, infoFetches>>

DeleteArtifact ==
    /\ UNCHANGED smaVars
    /\ pc = "idle"
    /\ events < MaxEvents
    /\ \E f \in DOMAIN fs \cap ArtifactFiles :
          /\ fs' = Remove(fs, f)
          /\ disturbed' = disturbed \cup {f}
    /\ events' = events + 1
    /\ prevOk' = FALSE
    /\ prevSaved' = {}
    /\ UNCHANGED <<repo, day, dataDir>>
    /\ UNCHANGED runVars
    /\ UNCHANGED <<runs, fsAtStart, fetched, batches, gotRows, malformed, written,
                   failedLog, allOk, abortCause, refreshes, infoFetches,
                   infoLost>>

NewDay ==
    /\ UNCHANGED smaVars
    /\ pc = "idle"
    /\ events < MaxEvents
    /\ events' = events + 1
    /\ day' = day + 1
    /\ refreshes' = [f \in ArtifactFiles |-> 0]
    /\ disturbed' = {}
    /\ prevOk' = FALSE
    /\ prevSaved' = {}
    /\ UNCHANGED <<repo, dataDir, fs>>
    /\ UNCHANGED runVars
    /\ UNCHANGED <<runs, fsAtStart, fetched, batches, gotRows, malformed, written,
                   failedLog, allOk, abortCause, infoFetches, infoLost>>

Next ==
    \/ StartRun
    \/ Interval
    \/ Download
    \/ TickerStep
    \/ TickerDump
    \/ SaveCacheOpen
    \/ SaveCacheDump
    \/ SaveInfoOpen
    \/ SaveInfoDump
    \/ ManifestOpen
    \/ ManifestDump
    \/ IndexOpen
    \/ IndexDump
    \/ Exit
    \/ Crash
    \/ DeleteArtifact
    \/ NewDay

Spec == Init /\ [][Next]_vars

(***************************************************************************)
(* sma on its own: a call of sma(values, n) on a series of closes of 10,   *)
(* 20 and 30 (in units of 0.0001) and a window, the ten closes of the      *)
(* moving-average example among the series.  Nothing else runs.            *)
(***************************************************************************)
SmaCloses == {100000, 200000, 300000}

SmaExample == <<100000, 200000, 300000, 100000, 200000, 300000, 100000, 200000,
                300000, 100000>>

SmaInputs == UNION {[1..m -> SmaCloses] : m \in 0..MaxLen} \cup {SmaExample}

SmaInit ==
    /\ repo = EmptyDict
    /\ day = 1
    /\ dataDir = FALSE
    /\ fs = EmptyDict
    /\ NoRun
    /\ NoRunHistory
    /\ runs = 0 /\ events = 0
    /\ refreshes = [f \in ArtifactFiles |-> 0]
    /\ disturbed = {}
    /\ infoFetches = [t \in Tickers |-> 0]
    /\ infoLost = {}
    /\ prevOk = FALSE
    /\ prevSaved = {}
    /\ sma_values \in SmaInputs
    /\ sma_n \in 1..MaxWindow
    /\ sma_result = <<>>
    /\ sma_called = FALSE

SmaCall ==
    /\ ~sma_called
    /\ sma_result' = sma(sma_values, sma_n)
    /\ sma_called' = TRUE
    /\ UNCHANGED <<envVars, runVars, histVars, sma_values, sma_n>>

SmaNext == SmaCall

SmaSpec == SmaInit /\ [][SmaNext]_vars

(***************************************************************************)
(* Properties.                                                             *)
(***************************************************************************)
Running == pc \notin {"idle", "exit1", "aborted"}

Pool == {k \in Keys : k[1] \in all_tickers}

FileOf(k) == ArtifactName(k[1], k[2])
KeyOf(k)  == cache_key(k[1], k[2])

\* the date the ledger file of files gives key; 0 when it gives none
LedgerEntry(files, key) ==
    IF /\ CACHE_FILE \in DOMAIN files
       /\ files[CACHE_FILE].kind = "json"
       /\ key \in DOMAIN files[CACHE_FILE].data
    THEN files[CACHE_FILE].data[key]
    ELSE 0

\* staleness as the specification defines it, on the files of DATA_DIR
StaleIn(files, k) == LedgerEntry(files, KeyOf(k)) # day \/ FileOf(k) \notin DOMAIN files

StaleOnDisk(k)  == StaleIn(fs, k)
StaleAtStart(k) == StaleIn(fsAtStart, k)

IntervalAt(label) == CHOOSE n \in 1..Len(INTERVALS) : INTERVALS[n].label = label

\* the current run has fetched every batch of the interval
BatchesDone(label) ==
    /\ Running
    /\ \/ ii > IntervalAt(label)
       \/ /\ ii = IntervalAt(label)
          /\ pc \in {"ticker", "dump", "save_cache", "dump_cache", "save_info", "dump_info"}

\* C1: needs_update(S, I) is true exactly when the ledger's date for (S, I) is
\* missing or differs from today, or the artifact file of (S, I) is absent: the
\* tickers the filter of an interval selects are exactly the tickers of the pool
\* that are stale on disk, and a ticker whose artifact was deleted while the
\* ledger holds today's date is fetched again by the next run.
C1_StalenessCheck ==
    /\ (pc = "download" /\ i = 0) =>
          \A t \in all_tickers :
             t \in Range(to_update) <=> StaleOnDisk(<<t, Label>>)
    /\ (Running /\ ii > 1 /\ to_update = <<>>) =>
          \A t \in all_tickers : ~StaleOnDisk(<<t, INTERVALS[ii - 1].label>>)
    /\ \A k \in Pool :
          /\ BatchesDone(k[2])
          /\ LedgerEntry(fsAtStart, KeyOf(k)) = day
          /\ FileOf(k) \notin DOMAIN fsAtStart
          => k \in fetched

C1_Witness ==
    /\ pc = "ticker"
    /\ \E k \in Pool :
          /\ k[2] = Label
          /\ LedgerEntry(fsAtStart, KeyOf(k)) = day
          /\ FileOf(k) \notin DOMAIN fsAtStart
          /\ k \in fetched
    /\ \E t \in all_tickers : t \notin Range(to_update)

\* C2: a (symbol, interval) that is not stale when the run starts is in no batch
\* passed to bulk_download at any point of that run.
C2_NoFetchUnlessStale == \A k \in fetched : StaleAtStart(k)

C2_Witness ==
    /\ pc = "done"
    /\ fetched # {}
    /\ \E k \in Pool : ~StaleAtStart(k) /\ k \notin fetched

\* C3, as claimed: across the runs of one day, crashed runs included, each
\* (symbol, interval) is refreshed (fetched and its artifact written) at most
\* once that day.
C3_AtMostOncePerDay == \A f \in ArtifactFiles : refreshes[f] <= 1

\* C3, amended: each (symbol, interval) is refreshed at most once a day, however
\* many grids name the symbol, unless its artifact file was deleted from outside
\* or a run ended, after writing the artifact, before the ledger of that
\* interval was saved.
C3_AtMostOncePerDayUnlessLost ==
    \A f \in ArtifactFiles : refreshes[f] > 1 => f \in disturbed

C3_Witness ==
    /\ pc = "done"
    /\ runs = 2
    /\ events = 0
    /\ fetched = {}
    /\ Pool # {}
    /\ \A k \in Pool : refreshes[FileOf(k)] = 1
    /\ \E t \in all_tickers, g, h \in DOMAIN grid_tickers :
          g # h /\ t \in Range(grid_tickers[g]) /\ t \in Range(grid_tickers[h])

ManifestTickers(files, name) == files[ManifestName(name)].data.tickers

\* C4: when the pipeline runs twice on one day with the same grids and every
\* fetch of the first run succeeds, the second run issues no fetch, writes for
\* every grid a manifest with the same available symbols in the same order, and
\* leaves the ledger as it was.
C4_Idempotent ==
    /\ (Running /\ prevOk) => fetched = {}
    /\ (pc = "done" /\ prevOk) =>
          /\ \A name \in DOMAIN grid_tickers :
                ManifestTickers(fs, name) = ManifestTickers(fsAtStart, name)
          /\ fs[CACHE_FILE] = fsAtStart[CACHE_FILE]

C4_Witness ==
    /\ pc = "done"
    /\ prevOk
    /\ \E name \in DOMAIN grid_tickers : Len(ManifestTickers(fs, name)) > 1
    /\ \A k \in Pool : LedgerEntry(fs, KeyOf(k)) = day

\* the current run has opened the artifact of k for writing
Opened(k) == k \in written \/ (pc = "dump" /\ k = <<Ticker, Label>>)

\* C5: the ledger entry of (S, I) is set to today only after the artifact of
\* (S, I) has been written, never before: an entry of today, on disk or in the
\* run's memory, implies a complete write of the artifact today (by this run,
\* when this run set the entry), and a run that ends before it opens the
\* artifact of a stale (S, I) leaves (S, I) stale on disk.
C5_LedgerOnlyAfterWrite ==
    /\ \A k \in Keys : LedgerEntry(fs, KeyOf(k)) = day => refreshes[FileOf(k)] >= 1
    /\ Running =>
          \A k \in Keys :
             (KeyOf(k) \in DOMAIN date_cache /\ date_cache[KeyOf(k)] = day) =>
                /\ refreshes[FileOf(k)] >= 1
                /\ k \in written \/ LedgerEntry(fsAtStart, KeyOf(k)) = day
    /\ \A k \in written : Exists(FileOf(k)) /\ fs[FileOf(k)].kind = "json"
    /\ Running => \A k \in Pool : StaleAtStart(k) /\ ~Opened(k) => StaleOnDisk(k)

C5_Witness ==
    /\ pc = "idle"
    /\ \E k \in Keys :
          /\ LedgerEntry(fs, KeyOf(k)) = day
          /\ Exists(FileOf(k))
          /\ fs[FileOf(k)].kind = "json"
    /\ \E k \in Keys :
          /\ Exists(FileOf(k))
          /\ fs[FileOf(k)] = Trunc
          /\ LedgerEntry(fs, KeyOf(k)) # day

\* C6, as claimed: the ledger is flushed after every batch, so that the symbols
\* of every batch completed before a crash are recorded as fresh on disk: while
\* a later batch of the interval is in flight, the ledger on disk holds today
\* for every symbol an earlier batch returned rows for.
C6_FlushedAfterEveryBatch ==
    (pc = "download" /\ i > 0) =>
       \A k \in DOMAIN gotRows : k[2] = Label => LedgerEntry(fs, KeyOf(k)) = day

\* C6, amended: the ledger is flushed once per interval, after all batches of
\* the interval are fetched and its artifacts written.  Until then the entries
\* on disk of the interval's stale symbols are what they were before the run, so
\* that a crash loses the ledger records of the whole interval in flight; from
\* then on every artifact the interval wrote is recorded as fresh on disk,
\* except while a later save has the ledger file open.
Saved(label) ==
    \/ ii > IntervalAt(label)
    \/ ii = IntervalAt(label) /\ pc \in {"save_info", "dump_info"}

C6_FlushedOncePerInterval ==
    /\ pc \in {"download", "ticker", "dump", "save_cache"} =>
          \A t \in Range(to_update) :
             LedgerEntry(fs, cache_key(t, Label)) = LedgerEntry(fsAtStart, cache_key(t, Label))
    /\ Running =>
          \A k \in written :
             Saved(k[2]) => LedgerEntry(fs, KeyOf(k)) = day \/ fs[CACHE_FILE] = Trunc

C6_Witness ==
    /\ pc = "save_cache"
    /\ Len(to_update) > CHUNK_SIZE
    /\ \E k \in written : k[2] = Label /\ LedgerEntry(fs, KeyOf(k)) # day
    /\ \E k \in written : k[2] # Label /\ LedgerEntry(fs, KeyOf(k)) = day

\* bulk_download returned a non-empty series for k to the current run
GotSeries(k) == k \in DOMAIN gotRows /\ gotRows[k] # <<>>

Untouched(k) ==
    /\ FileOf(k) \in DOMAIN fs <=> FileOf(k) \in DOMAIN fsAtStart
    /\ FileOf(k) \in DOMAIN fs => fs[FileOf(k)] = fsAtStart[FileOf(k)]
    /\ LedgerEntry(fs, KeyOf(k)) = LedgerEntry(fsAtStart, KeyOf(k))

InNoManifest(t) ==
    \A name \in DOMAIN grid_tickers : t \notin Range(ManifestTickers(fs, name))

\* C7: after a completed run, for every (S, I) that was stale: when the fetch
\* returned a non-empty series for S, the artifact of (S, I) holds that series,
\* enriched, and the ledger entry of (S, I) is today; otherwise S is reported
\* failed and the artifact and the ledger entry of (S, I) are as they were
\* before the run, so that a symbol without a daily artifact is in no manifest.
C7_WrittenIffFetched ==
    pc = "done" =>
       \A k \in Pool :
          StaleAtStart(k) =>
             IF GotSeries(k)
             THEN /\ k \in written
                  /\ k \notin failedLog
                  /\ Exists(FileOf(k))
                  /\ fs[FileOf(k)].kind = "json"
                  /\ fs[FileOf(k)].data.ticker = k[1]
                  /\ fs[FileOf(k)].data.ohlcv = enrich_with_sma(gotRows[k])
                  /\ LedgerEntry(fs, KeyOf(k)) = day
             ELSE /\ k \in failedLog
                  /\ k \notin written
                  /\ Untouched(k)
                  /\ (k[2] = "daily" /\ ~Exists(FileOf(k))) => InNoManifest(k[1])

C7_Witness ==
    /\ pc = "done"
    /\ \E a, b \in all_tickers, name \in DOMAIN grid_tickers :
          /\ {a, b} \subseteq Range(grid_tickers[name])
          /\ StaleAtStart(<<a, "daily">>) /\ StaleAtStart(<<b, "daily">>)
          /\ GotSeries(<<a, "daily">>) /\ <<a, "daily">> \in written
          /\ LedgerEntry(fs, cache_key(a, "daily")) = day
          /\ ~GotSeries(<<b, "daily">>) /\ <<b, "daily">> \in failedLog
          /\ ~Exists(ArtifactName(b, "daily"))
          /\ LedgerEntry(fs, cache_key(b, "daily")) = 0
          /\ ManifestTickers(fs, name) = <<a>>

\* C8: a symbol whose returned data holds a bar that cannot be parsed is treated
\* as a fetch failure, whatever the size of its batch: no artifact is written and
\* no ledger entry is set for it, and it is reported failed.
C8_MalformedIsFailure ==
    \A k \in malformed :
       /\ ~Opened(k)
       /\ Running => ~(KeyOf(k) \in DOMAIN date_cache /\ date_cache[KeyOf(k)] = day
                       /\ LedgerEntry(fsAtStart, KeyOf(k)) # day)
       /\ pc = "done" => k \in failedLog

\* C9: an exception raised by the data source never aborts the run.
C9_DataSourceNeverAborts == ~(pc = "aborted" /\ abortCause = "DataSource")

Declared(name) == load_tickers_from_file(repo[name])

PositionOf(name) == CHOOSE n \in 1..Len(GridNames) : GridNames[n] = name

\* the current run has written the manifest of the grid
ManifestBuilt(name) ==
    /\ name \in DOMAIN grid_tickers
    /\ \/ pc \in {"index", "dump_index", "done"}
       \/ pc \in {"manifest", "dump_manifest"} /\ PositionOf(name) < gi

C12_ListedHasBothArtifacts ==
    \A name \in DOMAIN repo :
       ManifestBuilt(name) =>
          \A t \in Range(ManifestTickers(fs, name)) :
             /\ Exists(ArtifactName(t, "daily"))
             /\ Exists(ArtifactName(t, "weekly"))

\* C13: an artifact file is never seen partially written: at every point of a
\* run, and after a run was killed at any point, an artifact file that exists
\* is a complete document, the previous one or the new one.
C13_ArtifactNeverPartial ==
    \A f \in ArtifactFiles : Exists(f) => fs[f].kind = "json"

\* C14: with no ticker file, the run exits with status 1 before any call of the
\* data source and before it touches the file store: no directory is created
\* and no file is written.
C14_NoSourcesNoInteraction ==
    pc = "exit1" => /\ ~dataDir
                    /\ fs = EmptyDict
                    /\ fetched = {}
                    /\ \A t \in Tickers : infoFetches[t] = 0

\* the places of k in the batches the current run has passed to bulk_download
Occurrences(k) ==
    UNION {{<<n, j>> : j \in {j \in 1..Len(batches[n].chunk) :
                                 /\ batches[n].label = k[2]
                                 /\ batches[n].chunk[j] = k[1]}} :
           n \in 1..Len(batches)}

SharedSymbols ==
    {t \in Tickers : \E g, h \in DOMAIN repo :
                        g # h /\ t \in Range(Declared(g)) /\ t \in Range(Declared(h))}

\* C15: a symbol several grids declare (after upper-casing) is fetched at most
\* once per run and interval: it is in at most one batch passed to the data
\* source for that interval, once, and so is every other symbol.
C15_FetchedOncePerRun ==
    \A k \in Keys :
       /\ Cardinality(Occurrences(k)) <= 1
       /\ k \in fetched <=> Occurrences(k) # {}

C15_Witness ==
    /\ pc = "manifest"
    /\ \E t \in SharedSymbols :
          /\ "a" \in UNION {Range(repo[g]) : g \in DOMAIN repo}
          /\ \A label \in Labels : Cardinality(Occurrences(<<t, label>>)) = 1
    /\ Len(batches) = 4

\* what is left of seq, in its order, when only the members of S are kept
Restricted(seq, S) == SelectSeq(seq, LAMBDA t : t \in S)

\* C16: the symbols of a manifest are in the order in which the grid's ticker
\* file declares them: the manifest is the declared sequence with the symbols
\* that are not available left out, whatever the sorted order of the pool.
C16_ManifestInDeclaredOrder ==
    \A name \in DOMAIN repo :
       ManifestBuilt(name) =>
          ManifestTickers(fs, name) =
             Restricted(Declared(name), Range(ManifestTickers(fs, name)))

C16_Witness ==
    /\ pc = "done"
    /\ \E name \in DOMAIN repo :
          /\ Len(ManifestTickers(fs, name)) = 2
          /\ ManifestTickers(fs, name) # Sorted(Range(ManifestTickers(fs, name)))
          /\ ManifestTickers(fs, name) = Declared(name)

\* the closes of the window that ends at index j
Window(j) == SubSeq(sma_values, j - sma_n + 1, j)

Abs(x) == IF x < 0 THEN -x ELSE x

\* C17, as claimed: sma(closes, n) has the length of closes, is null before
\* index n-1 and from there on equals the mean of the n closes that end at the
\* index.
C17_ExactMean ==
    sma_called =>
       /\ Len(sma_result) = Len(sma_values)
       /\ \A j \in 1..Len(sma_values) :
             IF j < sma_n THEN sma_result[j] = Null
             ELSE /\ sma_result[j] # Null
                  /\ sma_result[j].v * sma_n = Sum(Window(j))

\* C17, amended: sma(closes, n) has the length of closes, is null before index
\* n-1 and from there on is the mean of the n closes that end at the index,
\* rounded to 4 decimal places: a multiple of 0.0001 no further than 0.00005
\* from the mean.  The ten closes 10, 20, 30, ... with n = 3 give two nulls and
\* eight times 20, and a series shorter than n gives nulls only.
C17_RoundedMean ==
    sma_called =>
       /\ Len(sma_result) = Len(sma_values)
       /\ \A j \in 1..Len(sma_values) :
             IF j < sma_n THEN sma_result[j] = Null
             ELSE /\ sma_result[j] # Null
                  /\ 2 * Abs(sma_result[j].v * sma_n - Sum(Window(j))) <= sma_n
       /\ (sma_values = SmaExample /\ sma_n = 3) =>
             sma_result = <<Null, Null>> \o [j \in 1..8 |-> Value(200000)]
       /\ Len(sma_values) < sma_n =>
             sma_result = [j \in 1..Len(sma_values) |-> Null]

C17_Witness ==
    /\ sma_called
    /\ sma_n = 3
    /\ Len(sma_values) = MaxLen
    /\ sma_result[2] = Null
    /\ sma_result[3] # Null
    /\ sma_result[3].v * sma_n # Sum(Window(3))

\* C18: when a run is killed while a later interval is in flight, what it wrote
\* in an interval it had completed stays intact: the artifacts are complete
\* documents, the ledger on disk records them as refreshed today, and the next
\* run of the day starts and fetches none of them.
C18_CompletedIntervalSurvivesCrash ==
    \A k \in prevSaved :
       /\ Exists(FileOf(k)) /\ fs[FileOf(k)].kind = "json"
       /\ pc = "idle" => LedgerEntry(fs, KeyOf(k)) = day
       /\ k \notin fetched
       /\ ~(pc = "aborted" /\ abortCause = "JSONDecodeError")

\* the symbols of the pool that were stale for the interval when the run began
StaleSymbols(label) == {t \in all_tickers : StaleAtStart(<<t, label>>)}

\* every fetch of the run for the interval failed: there were stale symbols and
\* the data source gave a series for none of them
Outage(label) ==
    /\ StaleSymbols(label) # {}
    /\ \A t \in StaleSymbols(label) : ~GotSeries(<<t, label>>)

\* C19: intervals are processed independently: when a run has ended in which
\* every fetch of one interval failed, the stale symbols of the other interval
\* have been fetched all the same, those the data source gave a series for are
\* written and recorded in the ledger on disk, and the other interval's fresh
\* symbols are untouched.
C19_IntervalsIndependent ==
    (pc = "done" \/ (pc = "aborted" /\ abortCause = "DataSource")) =>
       \A l, m \in Labels :
          (l # m /\ Outage(l)) =>
             \A t \in all_tickers :
                LET k == <<t, m>>
                IN  IF StaleAtStart(k)
                    THEN /\ k \in fetched
                         /\ GotSeries(k) =>
                               /\ k \in written
                               /\ LedgerEntry(fs, KeyOf(k)) = day
                    ELSE Untouched(k)

\* the batches the current run has fetched for the interval, in order
BatchesOf(label) == SelectSeq(batches, LAMBDA b : b.label = label)

RECURSIVE Flattened(_)
Flattened(bs) == IF bs = <<>> THEN <<>> ELSE Head(bs).chunk \o Flattened(Tail(bs))

\* C20: for each interval the stale symbols are split into batches of at most
\* CHUNK_SIZE symbols, every batch but the last one full; the batches are
\* fetched one after the other in the order of the split, so that the batches
\* fetched so far, put end to end, are the beginning of the sorted stale list;
\* and once the batches of an interval are fetched, every stale symbol of the
\* pool is in exactly one of them and no other symbol is in any.
C20_PartitionInOrder ==
    /\ \A n \in 1..Len(batches) :
          /\ Len(batches[n].chunk) \in 1..CHUNK_SIZE
          /\ (n < Len(batches) /\ batches[n + 1].label = batches[n].label)
                => Len(batches[n].chunk) = CHUNK_SIZE
    /\ pc = "download" =>
          Flattened(BatchesOf(Label)) = SubSeq(to_update, 1, i)
    /\ pc \in {"ticker", "dump", "save_cache", "dump_cache", "save_info", "dump_info"} =>
          Flattened(BatchesOf(Label)) = to_update
    /\ \A label \in Labels :
          BatchesDone(label) =>
             \A t \in all_tickers :
                Cardinality(Occurrences(<<t, label>>)) =
                   IF t \in StaleSymbols(label) THEN 1 ELSE 0

C20_Witness ==
    /\ pc = "ticker"
    /\ runs = 2
    /\ Len(BatchesOf(Label)) = 2
    /\ Len(BatchesOf(Label)[1].chunk) = CHUNK_SIZE
    /\ Len(BatchesOf(Label)[2].chunk) = 1
    /\ \E l \in Labels : l # Label /\ BatchesOf(l) = <<>> /\ StaleSymbols(l) = {}

=============================================================================
